---- MODULE Spec2Model ----
(***************************************************************************)
(* Dispute AI backend (src/server.js): an Express server holding two       *)
(* process-local Maps (merchants, disputes) and five request handlers.     *)
(* A handler runs on the single-threaded event loop: it is atomic between  *)
(* its awaits, so every action below is one run of handler code from a     *)
(* request's arrival, or from the completion of an awaited call, up to the *)
(* next await or to the response.                                          *)
(*                                                                         *)
(* JavaScript strings are TLA+ strings (Len, \o and SubSeq act on them).   *)
(* A JavaScript Map is a sequence of [key, value] entries in insertion     *)
(* order.  An options object is a function from its keys to their values.  *)
(***************************************************************************)
EXTENDS Integers, Sequences, FiniteSets, TLC

VARIABLES
    env,        \* process.env: which optional settings are configured
    merchants,  \* the merchants Map
    disputes,   \* the disputes Map
    reqs        \* the requests received so far, in arrival order, each with
                \* its handler's position, locals, outbound calls and response

vars == <<env, merchants, disputes, reqs>>

---------------------------------------------------------------------------
(* Bounds of the model *)

\* Requests received in one run.
MaxRequests == 2

---------------------------------------------------------------------------
(* Program constants *)

\* Character budget of a draft preview in the listing.
PreviewLimit == 400

\* Maximum length of the evidence text of a submission.
SubmitLimit == 8000

PreviewEllipsis == "..."

EvidencePlaceholder == "See attached evidence."

DraftUnavailable == "Draft unavailable."

PlatformSentinel == "platform"

---------------------------------------------------------------------------
(* Strings *)

Min(a, b) == IF a < b THEN a ELSE b

RECURSIVE Rep(_, _)
\* The string of n copies of c.
Rep(c, n) ==
    IF n = 0 THEN ""
    ELSE IF n % 2 = 0 THEN LET h == Rep(c, n \div 2) IN h \o h
    ELSE c \o Rep(c, n - 1)

\* A text of n >= 1 characters whose last character differs from the others.
Text(n) == Rep("a", n - 1) \o "z"

\* String.prototype.slice(0, n) for n >= 0.
SliceTo(s, n) == SubSeq(s, 1, Min(n, Len(s)))

\* JavaScript truthiness of a string-or-missing value; a missing value
\* (undefined, null) is written "" here, which is falsy as well.
Truthy(s) == s # ""

---------------------------------------------------------------------------
(* Maps *)

MapHas(m, k) == \E i \in 1..Len(m) : m[i].key = k

MapGet(m, k) == m[CHOOSE i \in 1..Len(m) : m[i].key = k].value

\* Mutant: an existing key keeps its value (the first write wins).
MapSet_KeepFirst(m, k, v) ==
    IF MapHas(m, k) THEN m ELSE Append(m, [key |-> k, value |-> v])

\* Map.prototype.set: replaces the value of an existing key in place, or
\* appends a new entry.
MapSet(m, k, v) ==
    IF MapHas(m, k)
    THEN [i \in 1..Len(m) |->
            IF m[i].key = k THEN [key |-> k, value |-> v] ELSE m[i]]
    ELSE Append(m, [key |-> k, value |-> v])

\* The options object {} and the options object { stripeAccount: a }.
NoOpts == [k \in {} |-> ""]

ScopedOpts(a) == [k \in {"stripeAccount"} |-> a]

---------------------------------------------------------------------------
(* Inputs: what the outside world can send or answer *)

DisputeIds == {"dp_1", "dp_2"}

AccountIds == {"acct_1"}

\* event.account of a webhook event: a connected account id, or missing.
NoAccount == ""

EventAccounts == AccountIds \cup {NoAccount}

\* A webhook body: the event it claims to be.  An event of another kind
\* than the two dispute kinds is drawn with one object id and no account.
Events ==
    [type : {"charge.dispute.created", "charge.dispute.closed"},
     id : DisputeIds, account : EventAccounts]
    \cup [type : {"customer.created"}, id : {"dp_1"}, account : {NoAccount}]

\* Outcome of stripe.webhooks.constructEvent: "ok", or the message of the
\* error it throws.
SigOk == "ok"

SigErrors ==
    { "No signatures found matching the expected signature for payload",
      "Timestamp outside the tolerance zone" }

SigOutcomes == {SigOk} \cup SigErrors

\* The amounts the provider can report for a dispute: dp_1 is amended between
\* two retrievals, dp_2 is not.
Amounts(id) == IF id = "dp_1" THEN {2500, 990} ELSE {4200}

\* The dispute documents stripe.disputes.retrieve(id) can return.
DisputeDocs(id) ==
    { [id |-> id, amount |-> a, currency |-> "usd", reason |-> "fraudulent",
       status |-> "needs_response", created |-> 1700000000] : a \in Amounts(id) }

\* No document yet (a handler local not assigned so far).
NoDoc ==
    [id |-> "", amount |-> 0, currency |-> "", reason |-> "", status |-> "",
     created |-> 0]

\* Message contents a completion can carry: none, exactly the preview limit,
\* and more than the submission limit.
Contents == { "", Text(PreviewLimit), Text(SubmitLimit + 1) }

\* What awaiting resp.json() can produce: a body that is not JSON ("invalid"),
\* the JSON value null, or an object without choices, whose first choice has
\* no message, whose message has no content, or with a content string.
CompletionBodies ==
    [shape : {"invalid", "null", "nochoices", "nomessage", "nocontent"},
     content : {""}]
    \cup [shape : {"content"}, content : Contents]

---------------------------------------------------------------------------
(* Responses *)

TextResponse(status, text) == [status |-> status, json |-> FALSE, body |-> text]

\* res.json(v): v as the serialised body.
JsonResponse(status, v) == [status |-> status, json |-> TRUE, body |-> v]

Received == "{\"received\":true}"

---------------------------------------------------------------------------
(* generateAIDraft *)

\* Mutant: the fallback text without the dispute's id.
FallbackDraft_NoId(dispute) ==
    "Dispute: Provide clear proof of service/delivery, customer communication, refund policy, and terms.\n(OPENAI_API_KEY missing; returning fallback text.)"

\* The text returned when no OPENAI_API_KEY is configured.
FallbackDraft(dispute) ==
    "Dispute " \o dispute.id
    \o ": Provide clear proof of service/delivery, customer communication, refund policy, and terms.\n(OPENAI_API_KEY missing; returning fallback text.)"

\* Whether json.choices?.[0]?.message?.content throws: only json itself is
\* dereferenced without ?. .
ExtractThrows(json) == json.shape = "null"

\* Mutant: ?? in place of ||, so an empty content is returned as it is.
ExtractContent_NoFallback(json) ==
    IF json.shape = "content" THEN json.content ELSE DraftUnavailable

\* json.choices?.[0]?.message?.content || "Draft unavailable."
ExtractContent(json) ==
    IF json.shape = "content" /\ Truthy(json.content)
    THEN json.content
    ELSE DraftUnavailable

---------------------------------------------------------------------------
(* POST /webhooks/stripe *)

\* const accountId = event.account || null  (null is written "")
AccountOf(event) == IF Truthy(event.account) THEN event.account ELSE ""

\* Mutant: the retrieve call is never scoped.
RetrieveOpts_Unscoped(accountId) == NoOpts

\* accountId ? { stripeAccount: accountId } : {}
RetrieveOpts(accountId) ==
    IF Truthy(accountId) THEN ScopedOpts(accountId) ELSE NoOpts

\* Mutant: every record is stored as a platform-level case.
OwnerOf_AlwaysPlatform(accountId) == PlatformSentinel

\* accountId || "platform"
OwnerOf(accountId) == IF Truthy(accountId) THEN accountId ELSE PlatformSentinel

\* The handler's locals when the request arrives.
NewWebhook(sig, event) ==
    [kind |-> "webhook", pc |-> "start", sig |-> sig, event |-> event,
     accountId |-> "", retrieveCalls |-> <<>>, fetchCalls |-> <<>>,
     retrieved |-> "none", gen |-> "none", full |-> NoDoc, draft |-> "", writes |-> 0,
     sent |-> <<>>]

\* res.status(..).send(..) / res.json(..): the handler is finished.
Respond(r, resp) == [r EXCEPT !.pc = "done", !.sent = Append(@, resp)]

\* The webhook handler returns: its locals full and draft are gone.
Leave(r) == [r EXCEPT !.full = NoDoc, !.draft = ""]

\* Mutant: the catch swallows the error and acknowledges the event.
WebhookCatch_Swallow(r) == Leave(Respond(r, JsonResponse(200, Received)))

\* catch (e) of the handler: res.status(500).send("Internal error")
WebhookCatch(r) == Leave(Respond(r, TextResponse(500, "Internal error")))

\* Mutant: the handler goes on after a failed verification.
WebhookBegin_Unverified(sig, event) ==
    LET r == NewWebhook(sig, event)
        a == AccountOf(event)
    IN  IF event.type = "charge.dispute.created"
        THEN [r EXCEPT !.pc = "retrieve", !.accountId = a,
                       !.retrieved = "pending",
                       !.retrieveCalls =
                           Append(@, [id |-> event.id, opts |-> RetrieveOpts(a)])]
        ELSE Respond([r EXCEPT !.accountId = a], JsonResponse(200, Received))

\* Mutant: the closed case falls through into the created case.
WebhookBegin_Fallthrough(sig, event) ==
    LET r == NewWebhook(sig, event) IN
    IF sig # SigOk
    THEN Respond(r, TextResponse(400, "Webhook Error: " \o sig))
    ELSE LET a == AccountOf(event) IN
         IF event.type \in {"charge.dispute.created", "charge.dispute.closed"}
         THEN [r EXCEPT !.pc = "retrieve", !.accountId = a,
                        !.retrieved = "pending",
                        !.retrieveCalls =
                            Append(@, [id |-> event.id, opts |-> RetrieveOpts(a)])]
         ELSE Respond([r EXCEPT !.accountId = a], JsonResponse(200, Received))

\* From the arrival of the request to its response or to the first await.
WebhookBegin(sig, event) ==
    LET r == NewWebhook(sig, event) IN
    IF sig # SigOk
    THEN Respond(r, TextResponse(400, "Webhook Error: " \o sig))
    ELSE LET a == AccountOf(event) IN
         IF event.type = "charge.dispute.created"
         THEN [r EXCEPT !.pc = "retrieve", !.accountId = a,
                        !.retrieved = "pending",
                        !.retrieveCalls =
                            Append(@, [id |-> event.id, opts |-> RetrieveOpts(a)])]
         ELSE Respond([r EXCEPT !.accountId = a], JsonResponse(200, Received))

\* generateAIDraft(full) up to its return or to its first await.
DraftBegin(r, full) ==
    IF ~env.OPENAI_API_KEY
    THEN [r EXCEPT !.pc = "drafted", !.full = full, !.gen = "returned",
                   !.draft = FallbackDraft(full)]
    ELSE [r EXCEPT !.pc = "fetch", !.full = full, !.gen = "pending",
                   !.fetchCalls = Append(@, [dispute |-> full])]

\* generateAIDraft throws: the handler's catch answers.
DraftThrow(r) == WebhookCatch([r EXCEPT !.gen = "threw"])

\* generateAIDraft after resp.json() produced json.
DraftFromJson(r, json) ==
    IF json.shape = "invalid" \/ ExtractThrows(json)
    THEN DraftThrow(r)
    ELSE [r EXCEPT !.pc = "drafted", !.gen = "returned",
                   !.draft = ExtractContent(json)]

\* Mutant: the event's own object is stored in place of the retrieved one.
CaseRecord_EventObject(r) ==
    [data |-> [r.full EXCEPT !.amount = 0], draft |-> r.draft,
     account_id |-> OwnerOf(r.accountId)]

\* The record disputes.set stores for handler r.
CaseRecord(r) ==
    [data |-> r.full, draft |-> r.draft, account_id |-> OwnerOf(r.accountId)]

\* Mutant: the success payload is sent twice.
WebhookFinish_DoubleSend(r) ==
    Leave(Respond(Respond([r EXCEPT !.writes = @ + 1],
                          JsonResponse(200, Received)),
                  JsonResponse(200, Received)))

\* The handler after await generateAIDraft(full): the write and the answer.
WebhookFinish(r) ==
    Leave(Respond([r EXCEPT !.writes = @ + 1], JsonResponse(200, Received)))

SetReq(i, r) == reqs' = [reqs EXCEPT ![i] = r]

\* The microtask queue is empty.  A handler whose generateAIDraft has
\* returned resumes from its await as a microtask, and the event loop runs
\* no other callback (a new request, the completion of an outbound call)
\* before the microtask queue is drained.
Idle == \A i \in 1..Len(reqs) : reqs[i].pc # "drafted"

WebhookArrive ==
    /\ Idle
    /\ Len(reqs) < MaxRequests
    /\ \E sig \in SigOutcomes, event \in Events :
          reqs' = Append(reqs, WebhookBegin(sig, event))
    /\ UNCHANGED <<env, merchants, disputes>>

\* await stripe.disputes.retrieve(..) rejects.
RetrieveFail(i) ==
    /\ Idle
    /\ reqs[i].kind = "webhook" /\ reqs[i].pc = "retrieve"
    /\ SetReq(i, WebhookCatch([reqs[i] EXCEPT !.retrieved = "threw"]))
    /\ UNCHANGED <<env, merchants, disputes>>

\* await stripe.disputes.retrieve(..) resolves with the dispute.
RetrieveReturn(i) ==
    /\ Idle
    /\ reqs[i].kind = "webhook" /\ reqs[i].pc = "retrieve"
    /\ \E full \in DisputeDocs(reqs[i].event.id) :
          SetReq(i, DraftBegin([reqs[i] EXCEPT !.retrieved = "returned"], full))
    /\ UNCHANGED <<env, merchants, disputes>>

\* await fetch(..) rejects: a network failure.
FetchFail(i) ==
    /\ Idle
    /\ reqs[i].kind = "webhook" /\ reqs[i].pc = "fetch"
    /\ SetReq(i, DraftThrow(reqs[i]))
    /\ UNCHANGED <<env, merchants, disputes>>

\* await fetch(..) resolves with a response.
FetchReturn(i) ==
    /\ Idle
    /\ reqs[i].kind = "webhook" /\ reqs[i].pc = "fetch"
    /\ SetReq(i, [reqs[i] EXCEPT !.pc = "json"])
    /\ UNCHANGED <<env, merchants, disputes>>

\* await resp.json() settles.
JsonReturn(i) ==
    /\ Idle
    /\ reqs[i].kind = "webhook" /\ reqs[i].pc = "json"
    /\ \E json \in CompletionBodies : SetReq(i, DraftFromJson(reqs[i], json))
    /\ UNCHANGED <<env, merchants, disputes>>

\* Mutant: the record is written, then the handler fails before answering.
DraftReturn_WriteThenFail(i) ==
    /\ reqs[i].kind = "webhook" /\ reqs[i].pc = "drafted"
    /\ disputes' = MapSet(disputes, reqs[i].event.id, CaseRecord(reqs[i]))
    /\ SetReq(i, WebhookCatch([reqs[i] EXCEPT !.writes = @ + 1]))
    /\ UNCHANGED <<env, merchants>>

\* Mutant: the webhook handler registers the event's account as a merchant.
DraftReturn_TouchesMerchants(i) ==
    /\ reqs[i].kind = "webhook" /\ reqs[i].pc = "drafted"
    /\ disputes' = MapSet(disputes, reqs[i].event.id, CaseRecord(reqs[i]))
    /\ merchants' = IF Truthy(reqs[i].accountId)
                    THEN MapSet(merchants, reqs[i].accountId,
                                [access_token |-> "", scope |-> ""])
                    ELSE merchants
    /\ SetReq(i, WebhookFinish(reqs[i]))
    /\ UNCHANGED env

\* await generateAIDraft(full) resumes: disputes.set, then res.json.
DraftReturn(i) ==
    /\ reqs[i].kind = "webhook" /\ reqs[i].pc = "drafted"
    /\ disputes' = MapSet(disputes, reqs[i].event.id, CaseRecord(reqs[i]))
    /\ SetReq(i, WebhookFinish(reqs[i]))
    /\ UNCHANGED <<env, merchants>>

---------------------------------------------------------------------------
(* GET /disputes *)

\* Mutant: >= in place of > : a draft of exactly 400 characters gets "...".
PreviewDraft_OffByOne(draft) ==
    SliceTo(draft, PreviewLimit)
    \o (IF Truthy(draft) /\ Len(draft) >= PreviewLimit THEN PreviewEllipsis ELSE "")

\* obj.draft?.slice(0, 400) + (obj.draft && obj.draft.length > 400 ? "..." : "")
PreviewDraft(draft) ==
    SliceTo(draft, PreviewLimit)
    \o (IF Truthy(draft) /\ Len(draft) > PreviewLimit THEN PreviewEllipsis ELSE "")

\* The summary the listing gives of one entry.
Summary(id, obj) ==
    [id |-> id, account_id |-> obj.account_id, status |-> obj.data.status,
     amount |-> obj.data.amount, currency |-> obj.data.currency,
     reason |-> obj.data.reason, created |-> obj.data.created,
     draft |-> PreviewDraft(obj.draft)]

\* Array.from(disputes.entries()).map(..)
Listing(m) == [i \in 1..Len(m) |-> Summary(m[i].key, m[i].value)]

ListArrive ==
    /\ Idle
    /\ Len(reqs) < MaxRequests
    /\ reqs' = Append(reqs, [kind |-> "list", pc |-> "done",
                             sent |-> <<JsonResponse(200, Listing(disputes))>>])
    /\ UNCHANGED <<env, merchants, disputes>>

---------------------------------------------------------------------------
(* POST /disputes/:id/submit *)

\* Mutant: the draft is sent without slice(0, 8000).
EvidenceText_NoSlice(draft) == IF Truthy(draft) THEN draft ELSE EvidencePlaceholder

\* rec.draft?.slice(0, 8000) || "See attached evidence."
EvidenceText(draft) ==
    LET t == SliceTo(draft, SubmitLimit)
    IN  IF Truthy(t) THEN t ELSE EvidencePlaceholder

\* Mutant: the sentinel is not told apart from an account id.
SubmitOpts_AlwaysScoped(account_id) ==
    IF Truthy(account_id) THEN ScopedOpts(account_id) ELSE NoOpts

\* rec.account_id && rec.account_id !== "platform"
\*     ? { stripeAccount: rec.account_id } : {}
SubmitOpts(account_id) ==
    IF Truthy(account_id) /\ account_id # PlatformSentinel
    THEN ScopedOpts(account_id)
    ELSE NoOpts

\* Messages of the errors stripe.disputes.update can reject with.
UpdateErrors == {"No such dispute"}

\* Mutant: no 404 for an unknown id; the update call is made without a record.
SubmitBegin_NoLookupCheck(id) ==
    LET r == [kind |-> "submit", pc |-> "start", id |-> id,
              updateCalls |-> <<>>, sent |-> <<>>]
        known == MapHas(disputes, id)
    IN  [r EXCEPT !.pc = "update",
                  !.updateCalls =
                      Append(@, [id |-> id,
                                 evidence |-> IF known
                                              THEN EvidenceText(MapGet(disputes, id).draft)
                                              ELSE EvidencePlaceholder,
                                 opts |-> IF known
                                          THEN SubmitOpts(MapGet(disputes, id).account_id)
                                          ELSE NoOpts])]

\* From the arrival of the request to its response or to its await.
SubmitBegin(id) ==
    LET r == [kind |-> "submit", pc |-> "start", id |-> id,
              updateCalls |-> <<>>, sent |-> <<>>]
    IN  IF ~MapHas(disputes, id)
        THEN Respond(r, JsonResponse(404, [error |-> "Unknown dispute"]))
        ELSE LET rec == MapGet(disputes, id)
             IN  [r EXCEPT !.pc = "update",
                           !.updateCalls =
                               Append(@, [id |-> id,
                                          evidence |-> EvidenceText(rec.draft),
                                          opts |-> SubmitOpts(rec.account_id)])]

SubmitArrive ==
    /\ Idle
    /\ Len(reqs) < MaxRequests
    /\ \E id \in DisputeIds : reqs' = Append(reqs, SubmitBegin(id))
    /\ UNCHANGED <<env, merchants, disputes>>

\* await stripe.disputes.update(..) resolves.
SubmitReturn(i) ==
    /\ Idle
    /\ reqs[i].kind = "submit" /\ reqs[i].pc = "update"
    /\ SetReq(i, Respond(reqs[i],
                 JsonResponse(200, [ok |-> TRUE, updated |-> reqs[i].id])))
    /\ UNCHANGED <<env, merchants, disputes>>

\* await stripe.disputes.update(..) rejects.
SubmitFail(i) ==
    /\ Idle
    /\ reqs[i].kind = "submit" /\ reqs[i].pc = "update"
    /\ \E msg \in UpdateErrors :
          SetReq(i, Respond(reqs[i],
                    JsonResponse(500, [error |-> "Failed to submit evidence",
                                       detail |-> msg])))
    /\ UNCHANGED <<env, merchants, disputes>>

---------------------------------------------------------------------------
(* GET /connect/stripe *)

\* Values Math.random().toString(36).slice(2) can produce.
StateTokens == {"k3x9f0a", "p7q2zt1"}

AuthorizeUrl == "https://connect.stripe.com/oauth/authorize"

\* res.redirect(url): the URL as its base and its search parameters.
Redirect(base, params) ==
    [status |-> 302, json |-> FALSE, body |-> [base |-> base, params |-> params]]

\* The search parameters the handler sets on the URL.
AuthorizeParams(client_id, redirect_uri, state) ==
    [k \in {"response_type", "client_id", "scope", "redirect_uri",
            "stripe_user[business_type]"} |->
        CASE k = "response_type" -> "code"
          [] k = "client_id" -> client_id
          [] k = "scope" -> "read_write"
          [] k = "redirect_uri" -> redirect_uri
          [] OTHER -> "company"]

\* The whole handler; state is what Math.random() yields if it is reached.
ConnectBegin(state) ==
    LET client_id == env.STRIPE_CLIENT_ID
        redirect_uri == env.STRIPE_REDIRECT_URI
        r == [kind |-> "connect", pc |-> "start", state |-> "", sent |-> <<>>]
    IN  IF ~Truthy(client_id) \/ ~Truthy(redirect_uri)
        THEN Respond(r, JsonResponse(500,
                 [error |-> "Missing STRIPE_CLIENT_ID or STRIPE_REDIRECT_URI"]))
        ELSE Respond([r EXCEPT !.state = state],
                 Redirect(AuthorizeUrl,
                          AuthorizeParams(client_id, redirect_uri, state)))

ConnectArrive ==
    /\ Idle
    /\ Len(reqs) < MaxRequests
    /\ \E state \in StateTokens : reqs' = Append(reqs, ConnectBegin(state))
    /\ UNCHANGED <<env, merchants, disputes>>

---------------------------------------------------------------------------
(* GET /connect/stripe/callback *)

\* The query of a callback: "" is a missing parameter.
OAuthQueries ==
    [code : {"", "ac_1"}, error : {""}, error_description : {""}]
    \cup [code : {""}, error : {"access_denied"},
          error_description : {"The user denied your request"}]

\* What stripe.oauth.token can resolve with.
OAuthTokens ==
    [stripe_user_id : AccountIds, access_token : {"sk_a", "sk_b"},
     scope : {"read_write"}]

\* No token yet (the handler local before the exchange resolves).
NoToken == [stripe_user_id |-> "", access_token |-> "", scope |-> ""]

\* Mutant: the error parameter is not looked at.
OAuthBegin_IgnoresError(query) ==
    [kind |-> "oauth", pc |-> "token", query |-> query,
     tokenCalls |-> <<[grant_type |-> "authorization_code", code |-> query.code]>>,
     token |-> NoToken, sent |-> <<>>]

\* From the arrival of the request to its response or to its await.
OAuthBegin(query) ==
    LET r == [kind |-> "oauth", pc |-> "start", query |-> query,
              tokenCalls |-> <<>>, token |-> NoToken, sent |-> <<>>]
    IN  IF Truthy(query.error)
        THEN Respond(r, TextResponse(400,
                 "OAuth error: " \o query.error \o ": " \o query.error_description))
        ELSE [r EXCEPT !.pc = "token",
                       !.tokenCalls =
                           Append(@, [grant_type |-> "authorization_code",
                                      code |-> query.code])]

OAuthArrive ==
    /\ Idle
    /\ Len(reqs) < MaxRequests
    /\ \E query \in OAuthQueries : reqs' = Append(reqs, OAuthBegin(query))
    /\ UNCHANGED <<env, merchants, disputes>>

\* await stripe.oauth.token(..) resolves; the provider issues no token
\* without a code.
OAuthReturn(i) ==
    /\ Idle
    /\ reqs[i].kind = "oauth" /\ reqs[i].pc = "token"
    /\ Truthy(reqs[i].query.code)
    /\ \E token \in OAuthTokens :
          /\ merchants' = MapSet(merchants, token.stripe_user_id,
                                 [access_token |-> token.access_token,
                                  scope |-> token.scope])
          /\ SetReq(i, Respond([reqs[i] EXCEPT !.token = token], TextResponse(200,
                 "Connected Stripe account: " \o token.stripe_user_id
                 \o ". You can close this tab.")))
    /\ UNCHANGED <<env, disputes>>

\* await stripe.oauth.token(..) rejects.
OAuthFail(i) ==
    /\ Idle
    /\ reqs[i].kind = "oauth" /\ reqs[i].pc = "token"
    /\ SetReq(i, Respond(reqs[i], TextResponse(500, "OAuth token exchange failed")))
    /\ UNCHANGED <<env, merchants, disputes>>

---------------------------------------------------------------------------
(* The server *)

\* The settings of process.env the handlers read: OPENAI_API_KEY set or not,
\* STRIPE_CLIENT_ID and STRIPE_REDIRECT_URI with their value or "" (unset).
\* generateAIDraft reads only the first and GET /connect/stripe only the other
\* two, so each unset STRIPE_ setting is drawn with one OPENAI_API_KEY case.
Envs ==
    [OPENAI_API_KEY : BOOLEAN, STRIPE_CLIENT_ID : {"ca_1"},
     STRIPE_REDIRECT_URI : {"http://localhost:3000/connect/stripe/callback"}]
    \cup [OPENAI_API_KEY : {FALSE}, STRIPE_CLIENT_ID : {""},
          STRIPE_REDIRECT_URI : {"http://localhost:3000/connect/stripe/callback"}]
    \cup [OPENAI_API_KEY : {FALSE}, STRIPE_CLIENT_ID : {"ca_1"},
          STRIPE_REDIRECT_URI : {""}]

\* After startup: both Maps empty, no request yet.
Init ==
    /\ env \in Envs
    /\ merchants = <<>>
    /\ disputes = <<>>
    /\ reqs = <<>>

Next ==
    \/ WebhookArrive
    \/ ListArrive
    \/ SubmitArrive
    \/ OAuthArrive
    \/ ConnectArrive
    \/ \E i \in 1..Len(reqs) : RetrieveFail(i)
    \/ \E i \in 1..Len(reqs) : RetrieveReturn(i)
    \/ \E i \in 1..Len(reqs) : FetchFail(i)
    \/ \E i \in 1..Len(reqs) : FetchReturn(i)
    \/ \E i \in 1..Len(reqs) : JsonReturn(i)
    \/ \E i \in 1..Len(reqs) : DraftReturn(i)
    \/ \E i \in 1..Len(reqs) : SubmitReturn(i)
    \/ \E i \in 1..Len(reqs) : SubmitFail(i)
    \/ \E i \in 1..Len(reqs) : OAuthReturn(i)
    \/ \E i \in 1..Len(reqs) : OAuthFail(i)

Spec == Init /\ [][Next]_vars

---------------------------------------------------------------------------
(* Properties *)

Requests == 1..Len(reqs)

\* Whether t occurs in s.
Includes(s, t) ==
    \E i \in 1..(Len(s) - Len(t) + 1) : SubSeq(s, i, i + Len(t) - 1) = t

\* The keys of map m.
MapKeys(m) == {m[i].key : i \in 1..Len(m)}

\* The number of entries of m under key k.
MapCount(m, k) == Cardinality({i \in 1..Len(m) : m[i].key = k})

IsWebhook(i) == reqs[i].kind = "webhook"

IsSubmit(i) == reqs[i].kind = "submit"

\* Request i is a verified charge.dispute.created event.
IsCreation(i) ==
    /\ IsWebhook(i)
    /\ reqs[i].sig = SigOk
    /\ reqs[i].event.type = "charge.dispute.created"

\* Request i was answered with exactly the response resp.
Answered(i, resp) == reqs[i].pc = "done" /\ reqs[i].sent = <<resp>>

Acknowledged(i) == Answered(i, JsonResponse(200, Received))

\* This step is the arrival of a request.
Arrives == Len(reqs') = Len(reqs) + 1

\* C1: a webhook request whose signature verification fails, whatever event
\* its body claims, is answered 400 at once, has issued no dispute-retrieve
\* call and no generation call, has written nothing, and its arrival leaves
\* the disputes map as it was.
C1_RejectedTouchesNothing ==
    /\ [](\A i \in Requests :
            (IsWebhook(i) /\ reqs[i].sig # SigOk) =>
                /\ reqs[i].pc = "done"
                /\ Len(reqs[i].sent) = 1
                /\ reqs[i].sent[1].status = 400
                /\ reqs[i].retrieveCalls = <<>>
                /\ reqs[i].fetchCalls = <<>>
                /\ reqs[i].gen = "none"
                /\ reqs[i].writes = 0)
    /\ [][(/\ Arrives
           /\ reqs'[Len(reqs')].kind = "webhook"
           /\ reqs'[Len(reqs')].sig # SigOk) => disputes' = disputes]_vars

\* A rejected request claiming to be a creation event, for an id that another
\* request has stored.
C1_Witness ==
    \E i \in Requests :
        /\ IsWebhook(i) /\ reqs[i].sig # SigOk
        /\ reqs[i].event.type = "charge.dispute.created"
        /\ reqs[i].pc = "done"
        /\ MapHas(disputes, reqs[i].event.id)

\* C2 as stated: once the handler of a verified creation event has finished,
\* the disputes map holds exactly one record under the event's dispute id and
\* its draft is a non-empty string.
C2_FinishedHasRecord ==
    \A i \in Requests :
        (IsCreation(i) /\ reqs[i].pc = "done") =>
            /\ MapCount(disputes, reqs[i].event.id) = 1
            /\ Truthy(MapGet(disputes, reqs[i].event.id).draft)

\* C2 amended: once the handler of a verified creation event has finished with
\* the success payload, the disputes map holds exactly one record under the
\* event's dispute id and its draft is a non-empty string.
C2_AcknowledgedHasRecord ==
    \A i \in Requests :
        (IsCreation(i) /\ Acknowledged(i)) =>
            /\ MapCount(disputes, reqs[i].event.id) = 1
            /\ Truthy(MapGet(disputes, reqs[i].event.id).draft)

\* Two creation events for the same dispute id, both acknowledged.
C2_Witness ==
    \E i, j \in Requests :
        /\ i # j
        /\ IsCreation(i) /\ Acknowledged(i)
        /\ IsCreation(j) /\ Acknowledged(j)
        /\ reqs[i].event.id = reqs[j].event.id

\* A creation event for id was successfully processed: verified, retrieved,
\* drafted and acknowledged with success.
Processed(id) ==
    \E i \in Requests :
        /\ IsCreation(i)
        /\ reqs[i].event.id = id
        /\ reqs[i].retrieved = "returned"
        /\ reqs[i].gen = "returned"
        /\ Acknowledged(i)

\* C3: in every reachable state the disputes map holds a record for a dispute
\* id if and only if a creation event for that id was successfully processed.
C3_RecordIffProcessed ==
    /\ MapKeys(disputes) \subseteq DisputeIds
    /\ \A id \in DisputeIds : MapHas(disputes, id) <=> Processed(id)

\* One id is stored, and a finished creation event for the other id is not.
C3_Witness ==
    \E i, j \in Requests :
        /\ IsCreation(i) /\ MapHas(disputes, reqs[i].event.id)
        /\ IsCreation(j) /\ reqs[j].pc = "done"
        /\ ~MapHas(disputes, reqs[j].event.id)

\* Handling request i failed in retrieval or in generation.
Failed(r) == r.retrieved = "threw" \/ r.gen = "threw"

\* C4: when the retrieval or the generation of a verified creation event
\* fails, the handler answers 500 (not 400, not the success payload), the
\* request writes no record, and the failing step leaves the disputes map as
\* it was.
C4_FailureIs500NoWrite ==
    /\ [](\A i \in Requests :
            (IsCreation(i) /\ Failed(reqs[i])) =>
                /\ Answered(i, TextResponse(500, "Internal error"))
                /\ reqs[i].writes = 0)
    /\ [][\A i \in Requests :
            (IsCreation(i) /\ ~Failed(reqs[i]) /\ Failed(reqs'[i]))
                => disputes' = disputes]_vars

\* A retrieval failure and a generation failure, both answered.
C4_Witness ==
    \E i, j \in Requests :
        /\ IsCreation(i) /\ reqs[i].retrieved = "threw" /\ reqs[i].pc = "done"
        /\ IsCreation(j) /\ reqs[j].gen = "threw" /\ reqs[j].pc = "done"

\* C5: a submission for an id that is not a key of the disputes map is
\* answered 404 at once, issues no provider update call and leaves both maps
\* unchanged.
C5_UnknownSubmit404 ==
    [][(/\ Arrives
        /\ reqs'[Len(reqs')].kind = "submit"
        /\ ~MapHas(disputes, reqs'[Len(reqs')].id)) =>
            /\ reqs'[Len(reqs')].pc = "done"
            /\ Len(reqs'[Len(reqs')].sent) = 1
            /\ reqs'[Len(reqs')].sent[1].status = 404
            /\ reqs'[Len(reqs')].updateCalls = <<>>
            /\ disputes' = disputes
            /\ merchants' = merchants]_vars

\* A submission answered 404 while the map holds a record under another id.
C5_Witness ==
    \E i \in Requests :
        /\ IsSubmit(i)
        /\ reqs[i].pc = "done"
        /\ reqs[i].sent[1].status = 404
        /\ ~MapHas(disputes, reqs[i].id)
        /\ Len(disputes) > 0

\* The evidence text the claim gives for draft d: the first 8000 characters
\* of d, d itself when it has at most 8000, the placeholder when d is empty.
EvidenceFor(d, e) ==
    IF d = ""
    THEN e = EvidencePlaceholder
    ELSE /\ Len(e) = Min(Len(d), SubmitLimit)
         /\ e = SubSeq(d, 1, Len(e))
         /\ (Len(d) <= SubmitLimit => e = d)

\* C6: the evidence text a submission passes to the provider update call is
\* exactly the first 8000 characters of the stored draft (the draft itself
\* when it has at most 8000 characters), and the placeholder only for an
\* empty draft.
C6_EvidenceIsDraftPrefix ==
    [][(/\ Arrives
        /\ reqs'[Len(reqs')].kind = "submit"
        /\ MapHas(disputes, reqs'[Len(reqs')].id)) =>
            /\ Len(reqs'[Len(reqs')].updateCalls) = 1
            /\ reqs'[Len(reqs')].updateCalls[1].id = reqs'[Len(reqs')].id
            /\ EvidenceFor(MapGet(disputes, reqs'[Len(reqs')].id).draft,
                           reqs'[Len(reqs')].updateCalls[1].evidence)]_vars

\* A submission of a draft longer than 8000 characters.
C6_Witness ==
    \E i \in Requests :
        /\ IsSubmit(i)
        /\ Len(reqs[i].updateCalls) = 1
        /\ Len(reqs[i].updateCalls[1].evidence) = SubmitLimit
        /\ MapHas(disputes, reqs[i].id)
        /\ Len(MapGet(disputes, reqs[i].id).draft) > SubmitLimit

\* C7: the draft field of the listing summary of every stored record has at
\* most 403 characters: it is the stored draft when that has at most 400
\* characters, and its first 400 characters followed by "..." exactly when
\* it is longer.
C7_PreviewBounded ==
    \A i \in 1..Len(disputes) :
        LET d == disputes[i].value.draft
            p == Listing(disputes)[i].draft
        IN  /\ Len(p) <= PreviewLimit + 3
            /\ (Len(d) <= PreviewLimit => p = d)
            /\ (Len(d) > PreviewLimit => p = SubSeq(d, 1, PreviewLimit) \o "...")
            /\ (p = SubSeq(d, 1, Min(Len(d), PreviewLimit)) \o "..."
                    => Len(d) > PreviewLimit)

\* A stored draft of exactly 400 characters beside a longer one.
C7_Witness ==
    \E i, j \in 1..Len(disputes) :
        /\ Len(disputes[i].value.draft) = PreviewLimit
        /\ Len(disputes[j].value.draft) > PreviewLimit

\* C8: with no OPENAI_API_KEY configured, generateAIDraft returns a string
\* that contains the id of the dispute it was given, and the request issues no
\* network request for it.
C8_FallbackHasIdNoFetch ==
    ~env.OPENAI_API_KEY =>
        /\ \A i \in Requests :
              IsWebhook(i) =>
                  /\ reqs[i].fetchCalls = <<>>
                  /\ reqs[i].gen \in {"none", "returned"}
                  /\ (reqs[i].pc = "drafted" =>
                          Includes(reqs[i].draft, reqs[i].full.id))
        /\ \A k \in 1..Len(disputes) :
              Includes(disputes[k].value.draft, disputes[k].value.data.id)

\* Without a key: a draft just returned for one dispute and one stored for the
\* other.
C8_Witness ==
    /\ ~env.OPENAI_API_KEY
    /\ \E i \in Requests :
          /\ IsWebhook(i) /\ reqs[i].pc = "drafted"
          /\ \E k \in 1..Len(disputes) : disputes[k].key # reqs[i].event.id

\* C9 as stated: generateAIDraft never raises; whatever the completion request
\* does, the call returns a string.
C9_GeneratorNeverThrows ==
    \A i \in Requests : IsWebhook(i) => reqs[i].gen # "threw"

\* C10: the dispute-retrieve call of a creation event carries an account
\* scoping parameter if and only if the event carries an account identifier,
\* and the parameter is then that identifier.
C10_RetrieveScopedIffAccount ==
    \A i \in Requests :
        IsCreation(i) =>
            /\ Len(reqs[i].retrieveCalls) = 1
            /\ LET opts == reqs[i].retrieveCalls[1].opts
               IN  /\ ("stripeAccount" \in DOMAIN opts)
                        <=> (reqs[i].event.account \in AccountIds)
                   /\ ("stripeAccount" \in DOMAIN opts)
                        => opts["stripeAccount"] = reqs[i].event.account
                   /\ (reqs[i].event.account = NoAccount) => opts = NoOpts

\* One retrieve call scoped to an account and one at platform level.
C10_Witness ==
    \E i, j \in Requests :
        /\ IsCreation(i) /\ reqs[i].event.account \in AccountIds
        /\ reqs[i].retrieveCalls[1].opts = ScopedOpts(reqs[i].event.account)
        /\ IsCreation(j) /\ reqs[j].event.account = NoAccount
        /\ reqs[j].retrieveCalls[1].opts = NoOpts

IsList(i) == reqs[i].kind = "list"

IsOAuth(i) == reqs[i].kind = "oauth"

IsConnect(i) == reqs[i].kind = "connect"

\* The request that arrives in this step.
New == reqs'[Len(reqs')]

\* This step is the resumption of handler i after its draft was generated.
Resumes(i) == IsCreation(i) /\ reqs[i].pc = "drafted" /\ reqs'[i].pc = "done"

\* The owner the specification gives the record of an event.
OwnerFor(event) ==
    IF event.account \in AccountIds THEN event.account ELSE "platform"

\* C11: the record stored by a successfully processed creation event has the
\* event's account as owner, or "platform" when the event has none, and a
\* listing shows under the record's id that owner and the amount, currency,
\* reason and status the retrieve call returned.
C11_OwnerAndListedData ==
    /\ [][\A i \in Requests :
            (Resumes(i) /\ Acknowledged(i)') =>
                LET id == reqs[i].event.id
                    got == reqs[i].full
                IN  /\ MapHas(disputes', id)
                    /\ MapGet(disputes', id).account_id = OwnerFor(reqs[i].event)
                    /\ \A k \in 1..Len(disputes') :
                          disputes'[k].key = id =>
                              LET row == Listing(disputes')[k]
                              IN  /\ row.id = id
                                  /\ row.account_id = OwnerFor(reqs[i].event)
                                  /\ row.amount = got.amount
                                  /\ row.currency = got.currency
                                  /\ row.reason = got.reason
                                  /\ row.status = got.status]_vars
    /\ [][(Arrives /\ New.kind = "list") =>
            /\ New.sent = <<JsonResponse(200, Listing(disputes))>>
            /\ Len(Listing(disputes)) = Len(disputes)]_vars

\* The scenario of the specification: dp_1, amount 2500, usd, no account,
\* then a listing.
C11_Witness ==
    \E i \in Requests :
        /\ IsList(i)
        /\ \E k \in 1..Len(reqs[i].sent[1].body) :
              LET row == reqs[i].sent[1].body[k]
              IN  /\ row.id = "dp_1"
                  /\ row.account_id = "platform"
                  /\ row.amount = 2500
                  /\ row.currency = "usd"

\* Request i is a verified event of another kind than charge.dispute.created.
IsOtherEvent(r) ==
    /\ r.kind = "webhook"
    /\ r.sig = SigOk
    /\ r.event.type # "charge.dispute.created"

\* C12: a verified event of kind charge.dispute.closed, or of any kind other
\* than charge.dispute.created, leaves both maps unchanged, issues no provider
\* or generation call and is acknowledged with {received: true}.
C12_OtherEventsOnlyAcknowledged ==
    /\ [](\A i \in Requests :
            IsOtherEvent(reqs[i]) =>
                /\ Acknowledged(i)
                /\ reqs[i].retrieveCalls = <<>>
                /\ reqs[i].fetchCalls = <<>>
                /\ reqs[i].gen = "none"
                /\ reqs[i].writes = 0)
    /\ [][(Arrives /\ IsOtherEvent(New)) =>
            (disputes' = disputes /\ merchants' = merchants)]_vars

\* A closure event for a dispute id that has a record.
C12_Witness ==
    \E i \in Requests :
        /\ IsOtherEvent(reqs[i])
        /\ reqs[i].event.type = "charge.dispute.closed"
        /\ reqs[i].pc = "done"
        /\ MapHas(disputes, reqs[i].event.id)

\* The token exchange of callback i resolves or rejects in this step.
Exchanged(i) == IsOAuth(i) /\ reqs[i].pc = "token" /\ reqs'[i].pc = "done"

\* C13: the OAuth callback writes to the merchants map only when the token
\* exchange succeeds, and then stores the returned token and scope under the
\* returned account id; a callback with an error parameter is answered 400
\* with no exchange and no change; a failed exchange (a missing code
\* included) is answered 500 with no change.
C13_MerchantOnlyOnExchange ==
    /\ [](\A i \in Requests :
            (IsOAuth(i) /\ reqs[i].query.error # "") =>
                /\ reqs[i].pc = "done"
                /\ Len(reqs[i].sent) = 1
                /\ reqs[i].sent[1].status = 400
                /\ reqs[i].tokenCalls = <<>>)
    /\ [][(Arrives /\ New.kind = "oauth") => merchants' = merchants]_vars
    /\ [][\A i \in Requests :
            Exchanged(i) =>
                /\ Len(reqs'[i].sent) = 1
                /\ reqs'[i].sent[1].status \in {200, 500}
                /\ reqs[i].query.code = "" => reqs'[i].sent[1].status = 500
                /\ reqs'[i].sent[1].status = 500 => merchants' = merchants
                /\ reqs'[i].sent[1].status = 200 =>
                      LET token == reqs'[i].token
                      IN  /\ token \in OAuthTokens
                          /\ MapHas(merchants', token.stripe_user_id)
                          /\ MapGet(merchants', token.stripe_user_id)
                                = [access_token |-> token.access_token,
                                   scope |-> token.scope]]_vars
    /\ [][merchants' # merchants =>
            \E i \in Requests : Exchanged(i) /\ reqs'[i].sent[1].status = 200]_vars

\* A callback with an error parameter and one whose exchange succeeded.
C13_Witness ==
    \E i, j \in Requests :
        /\ IsOAuth(i) /\ reqs[i].query.error # "" /\ reqs[i].pc = "done"
        /\ IsOAuth(j) /\ reqs[j].pc = "done" /\ reqs[j].sent[1].status = 200
        /\ MapHas(merchants, reqs[j].token.stripe_user_id)

\* C14 as stated: with client id and redirect URI configured, the redirect
\* goes to the authorization URL carrying the state token generated for that
\* request beside the client id, the fixed scope and the redirect URI; with
\* one of them missing the answer is a server error.
C14_RedirectCarriesState ==
    \A i \in Requests :
        IsConnect(i) =>
            IF env.STRIPE_CLIENT_ID # "" /\ env.STRIPE_REDIRECT_URI # ""
            THEN /\ reqs[i].sent[1].status = 302
                 /\ LET params == reqs[i].sent[1].body.params
                    IN  /\ params["client_id"] = env.STRIPE_CLIENT_ID
                        /\ params["scope"] = "read_write"
                        /\ params["redirect_uri"] = env.STRIPE_REDIRECT_URI
                        /\ "state" \in DOMAIN params
                        /\ params["state"] = reqs[i].state
            ELSE reqs[i].sent[1].status = 500

\* Webhook request i failed in its handler (retrieval or generation).
HandlerFailed(i) == IsCreation(i) /\ reqs[i].pc = "done" /\ Failed(reqs[i])

\* Webhook request i failed signature verification.
Rejected(i) == IsWebhook(i) /\ reqs[i].sig # SigOk

\* C15 as stated: two webhook requests that fail in the same phase get the
\* same status and body, whatever the underlying error.
C15_FailuresLookAlike ==
    \A i, j \in Requests :
        /\ (Rejected(i) /\ Rejected(j)) => reqs[i].sent = reqs[j].sent
        /\ (HandlerFailed(i) /\ HandlerFailed(j)) => reqs[i].sent = reqs[j].sent

\* The record the specification expects handler i to leave: the retrieved
\* dispute, the draft generated for it and the owner of its event.
RecordOf(i) ==
    [data |-> reqs[i].full, draft |-> reqs[i].draft,
     account_id |-> OwnerFor(reqs[i].event)]

\* C16: when creation handlers for the same dispute id overlap, each handler
\* writes its record in the step that follows the completion of its own
\* generation, a record changes in no other step, and the id has exactly one
\* record; so the record left is that of the handler whose generation
\* completed last, whichever event arrived first.
C16_LastCompletionWins ==
    /\ [][\A i \in Requests :
            (IsCreation(i) /\ reqs[i].pc = "drafted") =>
                /\ Acknowledged(i)'
                /\ MapCount(disputes', reqs[i].event.id) = 1
                /\ MapGet(disputes', reqs[i].event.id) = RecordOf(i)]_vars
    /\ [][/\ Len(disputes') >= Len(disputes)
          /\ \A k \in 1..Len(disputes) :
                /\ disputes'[k].key = disputes[k].key
                /\ disputes'[k] # disputes[k] =>
                      \E i \in Requests :
                          /\ Resumes(i)
                          /\ reqs[i].event.id = disputes[k].key]_vars
    /\ [](\A id \in DisputeIds : MapCount(disputes, id) <= 1)

\* Two handlers for one id overlapped and the one that arrived first wrote
\* last: the record has the first event's owner.
C16_Witness ==
    \E i, j \in Requests :
        /\ i < j
        /\ IsCreation(i) /\ Acknowledged(i)
        /\ IsCreation(j) /\ Acknowledged(j)
        /\ reqs[i].event.id = reqs[j].event.id
        /\ reqs[i].event.account = "acct_1"
        /\ reqs[j].event.account = NoAccount
        /\ MapCount(disputes, reqs[i].event.id) = 1
        /\ MapGet(disputes, reqs[i].event.id).account_id = "acct_1"

\* C17 as stated: a record of the merchants map, once there, never changes
\* and is never removed, whatever requests follow.
C17_NeverChanges ==
    [][/\ Len(merchants') >= Len(merchants)
       /\ \A k \in 1..Len(merchants) : merchants'[k] = merchants[k]]_vars

\* C17, amended: a record of the merchants map is never removed and keeps its
\* account id, and its token and scope change only in a step in which the
\* token exchange of an OAuth callback succeeds for that account id.
C17_ChangedOnlyByExchange ==
    [][/\ Len(merchants') >= Len(merchants)
       /\ \A k \in 1..Len(merchants) :
             /\ merchants'[k].key = merchants[k].key
             /\ merchants'[k] # merchants[k] =>
                   \E i \in Requests :
                       /\ Exchanged(i)
                       /\ reqs'[i].sent[1].status = 200
                       /\ reqs'[i].token.stripe_user_id = merchants[k].key
                       /\ merchants'[k].value =
                             [access_token |-> reqs'[i].token.access_token,
                              scope |-> reqs'[i].token.scope]]_vars

\* Two callbacks succeeded for one account with different tokens: the record
\* holds the second one's.
C17_Witness ==
    \E i, j \in Requests :
        /\ i # j
        /\ IsOAuth(i) /\ reqs[i].pc = "done" /\ reqs[i].sent[1].status = 200
        /\ IsOAuth(j) /\ reqs[j].pc = "done" /\ reqs[j].sent[1].status = 200
        /\ reqs[i].token.stripe_user_id = reqs[j].token.stripe_user_id
        /\ reqs[i].token.access_token # reqs[j].token.access_token
        /\ MapCount(merchants, reqs[i].token.stripe_user_id) = 1
        /\ MapGet(merchants, reqs[j].token.stripe_user_id).access_token
              = reqs[j].token.access_token

\* The options the specification gives the update call of a record's owner.
RoutingFor(owner) == IF owner = "platform" THEN NoOpts ELSE ScopedOpts(owner)

\* C18: the update call of a submission is scoped to the record's owner
\* exactly when the owner is not "platform", and a record is stored with the
\* owner that gives the same routing as the retrieve call of the handler that
\* wrote it.
C18_SubmitRoutedLikeRetrieve ==
    /\ [][(Arrives /\ New.kind = "submit" /\ MapHas(disputes, New.id)) =>
            LET owner == MapGet(disputes, New.id).account_id
            IN  /\ Len(New.updateCalls) = 1
                /\ New.updateCalls[1].id = New.id
                /\ New.updateCalls[1].opts = RoutingFor(owner)
                /\ ("stripeAccount" \in DOMAIN New.updateCalls[1].opts)
                      <=> (owner # "platform")]_vars
    /\ [][\A i \in Requests :
            Resumes(i) =>
                /\ Len(reqs[i].retrieveCalls) = 1
                /\ RoutingFor(MapGet(disputes', reqs[i].event.id).account_id)
                      = reqs[i].retrieveCalls[1].opts]_vars
    /\ [](\A k \in 1..Len(disputes) :
            \E i \in Requests :
                /\ IsCreation(i) /\ Acknowledged(i)
                /\ reqs[i].event.id = disputes[k].key
                /\ reqs[i].retrieveCalls[1].opts
                      = RoutingFor(disputes[k].value.account_id))

\* A record written after an account-scoped retrieve, and a submission for
\* it whose update call is scoped to the same account.
C18_Witness ==
    \E i, j \in Requests :
        /\ IsCreation(i) /\ Acknowledged(i)
        /\ reqs[i].retrieveCalls[1].opts = ScopedOpts("acct_1")
        /\ IsSubmit(j)
        /\ reqs[j].id = reqs[i].event.id
        /\ Len(reqs[j].updateCalls) = 1
        /\ reqs[j].updateCalls[1].opts = ScopedOpts("acct_1")

\* C19: every change of the disputes map is the write of one whole record by
\* one handler: the data it retrieved, the draft generated from that data
\* (the completion request carried exactly that dispute, or the fallback
\* text names it) and the owner of its own event, stored under the id of that
\* data, with every other record untouched.  So every record read by a
\* listing or a submission is one handler's.
C19_RecordsWrittenWhole ==
    /\ [][disputes' # disputes =>
            \E i \in Requests :
                LET id == reqs[i].event.id
                IN  /\ Resumes(i)
                    /\ reqs[i].full \in DisputeDocs(id)
                    /\ MapGet(disputes', id) = RecordOf(i)
                    /\ IF env.OPENAI_API_KEY
                       THEN reqs[i].fetchCalls = <<[dispute |-> reqs[i].full]>>
                       ELSE /\ reqs[i].fetchCalls = <<>>
                            /\ Includes(reqs[i].draft, reqs[i].full.id)
                    /\ \A k \in 1..Len(disputes) :
                          disputes[k].key # id => disputes'[k] = disputes[k]
                    /\ \A k \in 1..Len(disputes') :
                          disputes'[k].key # id =>
                              (k <= Len(disputes) /\ disputes'[k] = disputes[k])]_vars
    /\ [](\A k \in 1..Len(disputes) :
            /\ disputes[k].value.data.id = disputes[k].key
            /\ disputes[k].value.data \in DisputeDocs(disputes[k].key))

\* A record is stored for dp_1 while another handler for dp_1, suspended in
\* its generation, holds other data and another owner for the same id.
C19_Witness ==
    \E i \in Requests :
        /\ IsCreation(i)
        /\ reqs[i].pc \in {"fetch", "json"}
        /\ MapHas(disputes, reqs[i].event.id)
        /\ MapGet(disputes, reqs[i].event.id).data # reqs[i].full
        /\ MapGet(disputes, reqs[i].event.id).account_id
              # OwnerFor(reqs[i].event)

\* Every outbound call of webhook handler n eventually returns or fails, and
\* a handler whose await has settled is resumed.
Settle(n) ==
    /\ n <= Len(reqs)
    /\ \/ RetrieveFail(n)
       \/ RetrieveReturn(n)
       \/ FetchFail(n)
       \/ FetchReturn(n)
       \/ JsonReturn(n)
       \/ DraftReturn(n)

LiveSpec == Spec /\ \A n \in 1..MaxRequests : WF_vars(Settle(n))

\* The responses the webhook endpoint can give.
IsWebhookResponse(r, resp) ==
    \/ /\ r.sig # SigOk
       /\ resp.status = 400
    \/ /\ r.sig = SigOk
       /\ resp = TextResponse(500, "Internal error")
    \/ /\ r.sig = SigOk
       /\ resp = JsonResponse(200, Received)

\* C20: every webhook request whose outbound calls each return or fail gets
\* exactly one response, one of 400 (signature rejected), 500 (handler error)
\* and {received: true}; no path sends two or none; the disputes map is
\* written at most once per request, and only by the request that is being
\* acknowledged.
C20_ExactlyOneResponse ==
    /\ [](\A i \in Requests :
            IsWebhook(i) =>
                /\ Len(reqs[i].sent) <= 1
                /\ (reqs[i].pc = "done") <=> (Len(reqs[i].sent) = 1)
                /\ Len(reqs[i].sent) = 1 =>
                      IsWebhookResponse(reqs[i], reqs[i].sent[1])
                /\ reqs[i].writes <= 1
                /\ reqs[i].writes = 1 => Acknowledged(i))
    /\ [][disputes' # disputes =>
            \E i \in Requests :
                /\ IsWebhook(i)
                /\ reqs[i].pc # "done"
                /\ Acknowledged(i)'
                /\ reqs'[i].writes = reqs[i].writes + 1
                /\ \A j \in Requests \ {i} : reqs'[j] = reqs[j]]_vars
    /\ \A n \in 1..MaxRequests :
          (Len(reqs) >= n /\ reqs[n].kind = "webhook")
              ~> (Len(reqs) >= n /\ reqs[n].pc = "done" /\ Len(reqs[n].sent) = 1)

\* One request acknowledged after its write, another answered 500.
C20_Witness ==
    \E i, j \in Requests :
        /\ IsCreation(i) /\ Acknowledged(i) /\ reqs[i].writes = 1
        /\ IsCreation(j) /\ Answered(j, TextResponse(500, "Internal error"))
        /\ reqs[j].writes = 0

====
